---- MODULE Spec2Model ----
(***************************************************************************)
(* Model of RadioStreamApp (src/app/index.tsx).  The file holds two        *)
(* variants of the component: variant 1 (lines 1-227) always drives        *)
(* react-native-track-player; variant 2 (lines 228-463) drives it only     *)
(* when Platform.OS is 'android' and otherwise creates browser Audio       *)
(* elements.  The component state (stations, loading, error,               *)
(* currentStation), the mount-time catalog fetch, the three handlers       *)
(* playStation / togglePlayPause / stopPlayback and the audio backends     *)
(* are modelled; every awaited backend call is one step of the invocation  *)
(* that awaits it, so invocations interleave at their awaits.              *)
(***************************************************************************)
EXTENDS Integers, Sequences, FiniteSets, TLC

\* ---------------------------------------------------------------- bounds
MaxLen == 2        \* longest catalog array the endpoint returns
MaxCalls == 2      \* playStation invocations per run
MaxInFlight == 2   \* handler invocations suspended at an await together

\* ------------------------------------------------------------- constants
NoStation == -1    \* currentStation === null

StationPool ==
    { [name |-> "A", url |-> "u1"], [name |-> "B", url |-> "u2"] }

RECURSIVE SeqsUpTo(_, _)
SeqsUpTo(S, n) ==
    IF n = 0 THEN { <<>> }
    ELSE LET shorter == SeqsUpTo(S, n - 1)
         IN  shorter \cup { Append(s, x) : s \in { t \in shorter : Len(t) = n - 1 }, x \in S }

\* what res.json() can resolve to: a JSON array of stations, or some other
\* JSON value (object, null, number ...)
Payloads ==
    { [isArray |-> TRUE, items |-> s] : s \in SeqsUpTo(StationPool, MaxLen) }
        \cup { [isArray |-> FALSE, items |-> <<>>] }

\* err.message of a rejected fetch() / res.json(); "" stands for a falsy message
ErrMessages == { "", "Network request failed" }

FallbackStations ==
    << [name |-> "Sample Radio 1", url |-> "https://example.com/stream1"],
       [name |-> "Sample Radio 2", url |-> "https://example.com/stream2"] >>

InvalidFormat == "Invalid station format."
FailedToFetch == "Failed to fetch stations"

VARIABLES
    variant,        \* 1 or 2: which component of the file is mounted
    PlatformOS,     \* Platform.OS
    stations,       \* useState<Station[]>([])
    loading,        \* useState(true)
    error,          \* useState('')
    currentStation, \* useState<number | null>(null)
    fetchPc,        \* position of fetchStations: mount, fetch, json, done
    response,       \* what the catalog endpoint answered (history)
    setupPc,        \* position of setupPlayer: mount, setup, ready, failed, skipped
    queue,          \* TrackPlayer queue: tracks [call, url]
    tpState,        \* TrackPlayer playback state
    audios,         \* browser Audio elements created so far: [call, url, playing]
    inflight,       \* handler invocations suspended at an await
    nCalls,         \* number of playStation invocations so far
    lastCall,       \* the invocation that settled last leaving none in flight,
                    \* until the next invocation (history)
    prevSelect,     \* the playStation invoked by the previous step, if any (history)
    race,           \* two playStation invocations in immediate succession (history)
    overlapEver,    \* two playStation invocations were in flight together (history)
    attempted       \* play() was called since the last stopPlayback returned (history)

fetchVars == << stations, loading, error, fetchPc, response >>
histVars == << lastCall, prevSelect, race, overlapEver, attempted >>
vars == << variant, PlatformOS, setupPc, fetchVars, currentStation, queue,
           tpState, audios, inflight, nCalls, histVars >>

\* the component uses TrackPlayer (variant 1, or variant 2 on android)
UsesTrackPlayer == variant = 1 \/ PlatformOS = "android"

NoCall == [op |-> "none", index |-> NoStation, id |-> 0, from |-> "-",
           after |-> "-", before |-> "-", prev |-> "-", issued |-> <<>>, result |-> "returned", alone |-> TRUE]
NoSelect == [id |-> 0, index |-> NoStation]
NoRace == [on |-> FALSE, first |-> NoSelect, second |-> NoSelect,
           released |-> 0, failed |-> FALSE]

Init ==
    /\ variant \in {1, 2}
    /\ PlatformOS \in {"android", "web"}
    /\ variant = 1 => PlatformOS = "android"
    /\ stations = <<>>
    /\ loading = TRUE
    /\ error = ""
    /\ currentStation = NoStation
    /\ fetchPc = "mount"
    /\ response = [kind |-> "none", data |-> [isArray |-> FALSE, items |-> <<>>], message |-> ""]
    /\ setupPc = "mount"
    /\ queue = <<>>
    /\ tpState = "none"
    /\ audios = <<>>
    /\ inflight = <<>>
    /\ nCalls = 0
    /\ lastCall = NoCall
    /\ prevSelect = NoSelect
    /\ race = NoRace
    /\ overlapEver = FALSE
    /\ attempted = FALSE

\* ------------------------------------------------------------ mount, setup

\* both useEffect(..., []) bodies run once after the first render:
\* setupPlayer() is called (not awaited) and fetchStations() runs up to its
\* first await
Mount ==
    /\ fetchPc = "mount"
    /\ setupPc' = IF UsesTrackPlayer THEN "setup" ELSE "skipped"
    /\ loading' = TRUE
    /\ fetchPc' = "fetch"
    /\ prevSelect' = NoSelect
    /\ UNCHANGED << variant, PlatformOS, stations, error, response,
                    currentStation, queue, tpState, audios, inflight, nCalls,
                    lastCall, race, overlapEver, attempted >>

\* await TrackPlayer.setupPlayer() settles (a rejection is not caught)
SetupPlayer ==
    /\ setupPc = "setup"
    /\ \E ok \in BOOLEAN : setupPc' = IF ok THEN "ready" ELSE "failed"
    /\ prevSelect' = NoSelect
    /\ UNCHANGED << variant, PlatformOS, fetchVars, currentStation, queue,
                    tpState, audios, inflight, nCalls, lastCall, race, overlapEver, attempted >>

\* ------------------------------------------------------------ fetchStations

\* err.message || 'Failed to fetch stations'
ErrorMessageNoDefault(message) == message
ErrorMessage(message) == IF message # "" THEN message ELSE FailedToFetch

\* setStations(data) in the try block
AcceptedStationsDropFirst(data) == IF data.items = <<>> THEN <<>> ELSE Tail(data.items)
AcceptedStations(data) == data.items

\* the catch block followed by the finally block
FetchCatchNoFinally(message) ==
    /\ error' = ErrorMessage(message)
    /\ stations' = FallbackStations
    /\ loading' = loading
    /\ fetchPc' = "done"

FetchCatch(message) ==
    /\ error' = ErrorMessage(message)
    /\ stations' = FallbackStations
    /\ loading' = FALSE
    /\ fetchPc' = "done"

\* await fetch(url) resolves with a response
FetchResolve ==
    /\ fetchPc = "fetch"
    /\ fetchPc' = "json"
    /\ prevSelect' = NoSelect
    /\ UNCHANGED << variant, PlatformOS, setupPc, stations, loading, error,
                    response, currentStation, queue, tpState, audios, inflight,
                    nCalls, lastCall, race, overlapEver, attempted >>

\* await fetch(url) rejects: transport error
FetchReject(messages) ==
    /\ fetchPc = "fetch"
    /\ \E m \in messages :
          /\ response' = [response EXCEPT !.kind = "transport", !.message = m]
          /\ FetchCatch(m)
    /\ prevSelect' = NoSelect
    /\ UNCHANGED << variant, PlatformOS, setupPc, currentStation, queue,
                    tpState, audios, inflight, nCalls, lastCall, race, overlapEver, attempted >>

\* await res.json() resolves with the parsed payload
JsonResolve(payloads) ==
    /\ fetchPc = "json"
    /\ \E data \in payloads :
          /\ response' = [response EXCEPT !.kind = "payload", !.data = data]
          /\ IF data.isArray
                THEN /\ stations' = AcceptedStations(data)
                     /\ loading' = FALSE
                     /\ fetchPc' = "done"
                     /\ UNCHANGED error
                ELSE FetchCatch(InvalidFormat)
    /\ prevSelect' = NoSelect
    /\ UNCHANGED << variant, PlatformOS, setupPc, currentStation, queue,
                    tpState, audios, inflight, nCalls, lastCall, race, overlapEver, attempted >>

\* await res.json() rejects: the body is not JSON
JsonReject(messages) ==
    /\ fetchPc = "json"
    /\ \E m \in messages :
          /\ response' = [response EXCEPT !.kind = "parse", !.message = m]
          /\ FetchCatch(m)
    /\ prevSelect' = NoSelect
    /\ UNCHANGED << variant, PlatformOS, setupPc, currentStation, queue,
                    tpState, audios, inflight, nCalls, lastCall, race, overlapEver, attempted >>

\* ------------------------------------------------------ the audio backends

\* the resources the backend holds: queued tracks, or Audio elements (an
\* Audio element is never paused or dropped by the component)
Held ==
    IF UsesTrackPlayer
        THEN { [call |-> queue[k].call, url |-> queue[k].url] : k \in DOMAIN queue }
        ELSE { [call |-> audios[k].call, url |-> audios[k].url] : k \in DOMAIN audios }

\* the spec's controller state, read off the backend
ControllerState ==
    IF UsesTrackPlayer
        THEN CASE tpState = "playing" -> "Playing"
               [] tpState = "paused" -> "Paused"
               [] tpState = "ready" -> "Loading"
               [] OTHER -> "Idle"
        ELSE IF audios = <<>> THEN "Idle"
             ELSE IF \E k \in DOMAIN audios : audios[k].playing THEN "Playing"
             ELSE "Paused"

\* a TrackPlayer call resolves only once setupPlayer has, and may reject anyway
Resolves(ok) == ok /\ setupPc = "ready"

\* TrackPlayer.reset(): stops playback and clears the queue
TrackPlayerReset ==
    /\ queue' = <<>>
    /\ tpState' = "none"
    /\ race' = IF race.on /\ \E k \in DOMAIN queue : queue[k].call = race.first.id
                  THEN [race EXCEPT !.released = @ + 1]
                  ELSE race

\* TrackPlayer.add(track): appends to the queue
TrackPlayerAdd(track) ==
    /\ queue' = Append(queue, track)
    /\ tpState' = IF tpState = "none" THEN "ready" ELSE tpState

\* TrackPlayer.play(): plays the active (first) track, if there is one
TrackPlayerPlay ==
    tpState' = IF queue # <<>> THEN "playing" ELSE tpState

\* TrackPlayer.pause()
TrackPlayerPause ==
    tpState' = IF queue # <<>> THEN "paused" ELSE tpState

\* TrackPlayer.stop(): stops playback, the queue is kept
TrackPlayerStop ==
    tpState' = IF queue # <<>> THEN "stopped" ELSE tpState

\* ------------------------------------------------------- handler invocations

Remove(s, k) == [j \in 1..(Len(s) - 1) |-> IF j < k THEN s[j] ELSE s[j + 1]]

\* a new invocation starts while others are suspended: none of them ran alone
Joined == [j \in DOMAIN inflight |-> [inflight[j] EXCEPT !.alone = FALSE]]

\* the same handler has returned just before this invocation
Repeats(op) ==
    /\ inflight = <<>>
    /\ lastCall.op = op
    /\ lastCall.result = "returned"
    /\ lastCall.alone

\* a handler has returned just before this invocation: which one
Follows ==
    IF inflight = <<>> /\ lastCall.result = "returned" /\ lastCall.alone
        THEN lastCall.op ELSE "-"

\* from: the controller state togglePlayPause was invoked in;
\* after: the handler this invocation repeats; before: that one's from;
\* prev: the handler this togglePlayPause follows
NewCall(op, pc, index, id) ==
    [op |-> op, pc |-> pc, index |-> index, id |-> id, url |-> "",
     from |-> IF op = "toggle" THEN ControllerState ELSE "-",
     after |-> IF Repeats(op) THEN op ELSE "-",
     before |-> IF Repeats(op) THEN lastCall.from ELSE "-",
     prev |-> IF op = "toggle" THEN Follows ELSE "-",
     issued |-> << pc >>, alone |-> (inflight = <<>>)]

Summary(h, result) ==
    [op |-> h.op, index |-> h.index, id |-> h.id, from |-> h.from,
     after |-> h.after, before |-> h.before, prev |-> h.prev, issued |-> h.issued, result |-> result, alone |-> h.alone]

\* invocation k resumes and issues its next backend call
Continue(k, pc) ==
    /\ inflight' = [inflight EXCEPT ![k].pc = pc, ![k].issued = Append(@, pc)]
    /\ UNCHANGED lastCall

\* invocation k ends: "returned", "caught" (its catch block ran) or
\* "escaped" (the rejection left the handler)
Settle(k, result) ==
    /\ inflight' = Remove(inflight, k)
    /\ lastCall' = IF Len(inflight) = 1 THEN Summary(inflight[k], result) ELSE NoCall

At(k, op, pc) ==
    /\ k \in DOMAIN inflight
    /\ inflight[k].op = op
    /\ inflight[k].pc = pc

\* --------------------------------------------------------------- playStation

\* setCurrentStation(index)
SelectedIndexNext(index) == index + 1
SelectedIndex(index) == index

\* onPress of a rendered row: playStation(item, index) runs to its first await
\* (TrackPlayer), or to its end (Audio element)
PlayStation(index) ==
    /\ fetchPc = "done"
    /\ ~loading
    /\ index \in 0..(Len(stations) - 1)
    /\ nCalls < MaxCalls
    /\ LET id == nCalls + 1
           station == stations[index + 1]
           this == [id |-> id, index |-> index]
       IN  /\ nCalls' = id
           /\ prevSelect' = this
           /\ IF UsesTrackPlayer
                 THEN /\ Len(inflight) < MaxInFlight
                      /\ inflight' = Append(Joined, [NewCall("select", "reset", index, id)
                                                        EXCEPT !.url = station.url])
                      /\ race' = IF /\ prevSelect.id # 0
                                    /\ Len(inflight) = 1
                                    /\ inflight[1].id = prevSelect.id
                                    THEN [NoRace EXCEPT !.on = TRUE, !.first = prevSelect,
                                                        !.second = this]
                                    ELSE NoRace
                      /\ overlapEver' =
                            (overlapEver \/ \E k \in DOMAIN inflight : inflight[k].op = "select")
                      /\ lastCall' = NoCall
                      /\ UNCHANGED << currentStation, audios, attempted >>
                 ELSE \E ok \in BOOLEAN :
                      \* const audio = new Audio(station.url); audio.play();
                      \* setCurrentStation(index); a rejection of the promise
                      \* audio.play() returns is neither awaited nor caught
                      /\ audios' = Append(audios, [call |-> id, url |-> station.url,
                                                   playing |-> ok])
                      /\ currentStation' = SelectedIndex(index)
                      /\ lastCall' = Summary([NewCall("select", "audio", index, id)
                                                 EXCEPT !.issued = << "new Audio", "audio.play" >>],
                                             IF ok THEN "returned" ELSE "escaped")
                      /\ race' = IF prevSelect.id # 0
                                    THEN [NoRace EXCEPT !.on = TRUE, !.first = prevSelect,
                                                        !.second = this,
                                                        !.failed = ~ok \/ ~audios[Len(audios)].playing]
                                    ELSE NoRace
                      /\ attempted' = TRUE
                      /\ UNCHANGED << inflight, overlapEver >>
    /\ UNCHANGED << variant, PlatformOS, setupPc, fetchVars, queue, tpState >>

\* catch (e) { console.error('Playback error:', e); }
PlayStationCatch(k) ==
    Settle(k, "caught")

\* a member of the race did not get through its backend calls
RaceFails(k) ==
    IF race.on /\ inflight[k].id \in {race.first.id, race.second.id}
        THEN [race EXCEPT !.failed = TRUE] ELSE race

\* await TrackPlayer.reset() settles
PlayStationReset(k) ==
    /\ At(k, "select", "reset")
    /\ \E ok \in BOOLEAN :
          IF Resolves(ok)
             THEN /\ TrackPlayerReset
                  /\ Continue(k, "add")
             ELSE /\ PlayStationCatch(k)
                  /\ race' = RaceFails(k)
                  /\ UNCHANGED << queue, tpState >>
    /\ prevSelect' = NoSelect
    /\ UNCHANGED << variant, PlatformOS, setupPc, fetchVars, currentStation,
                    audios, nCalls, overlapEver, attempted >>

\* await TrackPlayer.add({id, url, title, artist}) settles
PlayStationAdd(k) ==
    /\ At(k, "select", "add")
    /\ \E ok \in BOOLEAN :
          IF Resolves(ok)
             THEN /\ TrackPlayerAdd([call |-> inflight[k].id, url |-> inflight[k].url])
                  /\ Continue(k, "play")
                  /\ attempted' = TRUE
                  /\ UNCHANGED race
             ELSE /\ PlayStationCatch(k)
                  /\ race' = RaceFails(k)
                  /\ UNCHANGED << queue, tpState, attempted >>
    /\ prevSelect' = NoSelect
    /\ UNCHANGED << variant, PlatformOS, setupPc, fetchVars, currentStation,
                    audios, nCalls, overlapEver >>

\* await TrackPlayer.play() settles; setCurrentStation(index)
PlayStationPlay(k) ==
    /\ At(k, "select", "play")
    /\ \E ok \in BOOLEAN :
          IF Resolves(ok)
             THEN /\ TrackPlayerPlay
                  /\ currentStation' = SelectedIndex(inflight[k].index)
                  /\ Settle(k, "returned")
                  /\ UNCHANGED race
             ELSE /\ PlayStationCatch(k)
                  /\ race' = RaceFails(k)
                  /\ UNCHANGED << tpState, currentStation >>
    /\ prevSelect' = NoSelect
    /\ UNCHANGED << variant, PlatformOS, setupPc, fetchVars, queue, audios,
                    nCalls, overlapEver, attempted >>

\* ----------------------------------------------------------- togglePlayPause

\* onPress of the play/pause control
TogglePlayPause ==
    /\ fetchPc # "mount"
    /\ IF UsesTrackPlayer
          THEN /\ Len(inflight) < MaxInFlight
               /\ inflight' = Append(Joined, NewCall("toggle", "getState", NoStation, 0))
               /\ lastCall' = NoCall
          ELSE \* Web-specific play/pause logic: empty
               /\ lastCall' = Summary([NewCall("toggle", "none", NoStation, 0)
                                          EXCEPT !.issued = <<>>], "returned")
               /\ UNCHANGED inflight
    /\ prevSelect' = NoSelect
    /\ race' = NoRace
    /\ UNCHANGED << variant, PlatformOS, setupPc, fetchVars, currentStation,
                    queue, tpState, audios, nCalls, overlapEver, attempted >>

\* a rejection in togglePlayPause or stopPlayback: there is no try/catch
Escapes(k) ==
    Settle(k, "escaped")

\* const state = await TrackPlayer.getState() settles; the branch is chosen
ToggleBranch(state) == IF state = "playing" THEN "pause" ELSE "play"

ToggleGetState(k) ==
    /\ At(k, "toggle", "getState")
    /\ \E ok \in BOOLEAN :
          IF Resolves(ok)
             THEN /\ Continue(k, ToggleBranch(tpState))
                  /\ attempted' = (attempted \/ ToggleBranch(tpState) = "play")
             ELSE /\ Escapes(k)
                  /\ UNCHANGED attempted
    /\ prevSelect' = NoSelect
    /\ UNCHANGED << variant, PlatformOS, setupPc, fetchVars, currentStation,
                    queue, tpState, audios, nCalls, race, overlapEver >>

\* await TrackPlayer.pause() settles
TogglePause(k) ==
    /\ At(k, "toggle", "pause")
    /\ \E ok \in BOOLEAN :
          IF Resolves(ok)
             THEN /\ TrackPlayerPause
                  /\ Settle(k, "returned")
             ELSE /\ Escapes(k)
                  /\ UNCHANGED tpState
    /\ prevSelect' = NoSelect
    /\ UNCHANGED << variant, PlatformOS, setupPc, fetchVars, currentStation,
                    queue, audios, nCalls, race, overlapEver, attempted >>

\* await TrackPlayer.play() settles
TogglePlay(k) ==
    /\ At(k, "toggle", "play")
    /\ \E ok \in BOOLEAN :
          IF Resolves(ok)
             THEN /\ TrackPlayerPlay
                  /\ Settle(k, "returned")
             ELSE /\ Escapes(k)
                  /\ UNCHANGED tpState
    /\ prevSelect' = NoSelect
    /\ UNCHANGED << variant, PlatformOS, setupPc, fetchVars, currentStation,
                    queue, audios, nCalls, race, overlapEver, attempted >>

\* -------------------------------------------------------------- stopPlayback

\* onPress of the stop control
StopPlayback ==
    /\ fetchPc # "mount"
    /\ IF UsesTrackPlayer
          THEN /\ Len(inflight) < MaxInFlight
               /\ inflight' = Append(Joined, NewCall("stop", "stop", NoStation, 0))
               /\ lastCall' = NoCall
               /\ UNCHANGED attempted
          ELSE \* Web-specific stop logic: empty
               /\ lastCall' = Summary([NewCall("stop", "none", NoStation, 0)
                                          EXCEPT !.issued = <<>>], "returned")
               /\ attempted' = FALSE
               /\ UNCHANGED inflight
    /\ prevSelect' = NoSelect
    /\ race' = NoRace
    /\ UNCHANGED << variant, PlatformOS, setupPc, fetchVars, currentStation,
                    queue, tpState, audios, nCalls, overlapEver >>

\* what follows await TrackPlayer.stop(): variant 1 resets the current
\* station, variant 2 has no statement there
AfterStop == IF variant = 1 THEN NoStation ELSE currentStation

\* await TrackPlayer.stop() settles
StopStop(k) ==
    /\ At(k, "stop", "stop")
    /\ \E ok \in BOOLEAN :
          IF Resolves(ok)
             THEN /\ TrackPlayerStop
                  /\ currentStation' = AfterStop
                  /\ attempted' = FALSE
                  /\ Settle(k, "returned")
             ELSE /\ Escapes(k)
                  /\ UNCHANGED << tpState, currentStation, attempted >>
    /\ prevSelect' = NoSelect
    /\ UNCHANGED << variant, PlatformOS, setupPc, fetchVars, queue, audios,
                    nCalls, race, overlapEver >>

\* ---------------------------------------------------------------------- spec

Slots == 1..MaxInFlight
Indices == 0..((IF MaxLen > Len(FallbackStations) THEN MaxLen ELSE Len(FallbackStations)) - 1)

\* the steps of the three handlers
Handlers ==
    \/ \E index \in Indices : PlayStation(index)
    \/ \E k \in Slots : PlayStationReset(k)
    \/ \E k \in Slots : PlayStationAdd(k)
    \/ \E k \in Slots : PlayStationPlay(k)
    \/ TogglePlayPause
    \/ \E k \in Slots : ToggleGetState(k)
    \/ \E k \in Slots : TogglePause(k)
    \/ \E k \in Slots : TogglePlay(k)
    \/ StopPlayback
    \/ \E k \in Slots : StopStop(k)

\* the catalog of the spec's scenario, [{"name":"A","url":"u1"},{"name":"B","url":"u2"}]
Catalog == << [name |-> "A", url |-> "u1"], [name |-> "B", url |-> "u2"] >>
SamplePayloads == { [isArray |-> TRUE, items |-> Catalog], [isArray |-> FALSE, items |-> <<>>] }
SampleMessages == { "Network request failed" }

\* the player controller over the scenario's catalog or the fallback list
Next ==
    \/ Mount
    \/ SetupPlayer
    \/ FetchResolve
    \/ FetchReject(SampleMessages)
    \/ JsonResolve(SamplePayloads)
    \/ JsonReject(SampleMessages)
    \/ Handlers

Spec == Init /\ [][Next]_vars

\* the station source over every payload and failure, with the controls that
\* are on screen while the catalog loads (no row is pressed, so nothing plays
\* and togglePlayPause never takes its pause branch)
NextFetch ==
    \/ Mount
    \/ SetupPlayer
    \/ FetchResolve
    \/ FetchReject(ErrMessages)
    \/ JsonResolve(Payloads)
    \/ JsonReject(ErrMessages)
    \/ TogglePlayPause
    \/ \E k \in Slots : ToggleGetState(k)
    \/ \E k \in Slots : TogglePlay(k)
    \/ StopPlayback
    \/ \E k \in Slots : StopStop(k)

SpecFetch == Init /\ [][NextFetch]_vars

\* the station source under the claim's proviso that the fetch settles: the
\* effects run after the first render and each awaited promise settles
SpecFetchLive ==
    /\ SpecFetch
    /\ WF_vars(Mount)
    /\ WF_vars(FetchResolve \/ FetchReject(ErrMessages))
    /\ WF_vars(JsonResolve(Payloads) \/ JsonReject(ErrMessages))

\* catalogs of every length up to the scenario's
ListPayloads ==
    { [isArray |-> TRUE, items |-> SubSeq(Catalog, 1, n)] : n \in 0..Len(Catalog) }
        \cup { [isArray |-> FALSE, items |-> <<>>] }

\* the player controller over station lists of every length
NextLists ==
    \/ Mount
    \/ SetupPlayer
    \/ FetchResolve
    \/ FetchReject(SampleMessages)
    \/ JsonResolve(ListPayloads)
    \/ JsonReject(SampleMessages)
    \/ Handlers

SpecLists == Init /\ [][NextLists]_vars

\* -------------------------------------------------------------------- claims

\* the subtitle: "Loading..." (-1) or `${stations.length} available`
Subtitle == IF loading THEN -1 ELSE Len(stations)

\* the error banner is rendered
ErrorShown == error # ""

\* the message the catalog fetch recorded, "" if none
FetchErrorText ==
    CASE response.kind \in {"transport", "parse"} ->
            (IF response.message # "" THEN response.message ELSE FailedToFetch)
      [] response.kind = "payload" /\ ~response.data.isArray -> InvalidFormat
      [] OTHER -> ""

\* an error other than the catalog fetch's is on screen
PlaybackErrorShown == ErrorShown /\ error # FetchErrorText

FetchFailed ==
    \/ response.kind \in {"transport", "parse"}
    \/ response.kind = "payload" /\ ~response.data.isArray

\* C1: two playStation calls for different stations in immediate succession,
\* both through their backend calls: once both have settled at most one
\* resource is held, it is the second call's and is bound to the second
\* station's url, currentStation is the second index, and the first call's
\* resource has been released exactly once.
C1_RapidSwitchKeepsLatest ==
    (/\ race.on
     /\ ~race.failed
     /\ inflight = <<>>
     /\ race.first.index # race.second.index)
        => /\ Cardinality(Held) <= 1
           /\ \A r \in Held : /\ r.call = race.second.id
                              /\ r.url = stations[race.second.index + 1].url
           /\ currentStation = race.second.index
           /\ race.released = 1

\* C2: togglePlayPause with no station ever selected shows a playback error,
\* issues no backend play or pause, and leaves currentStation null and the
\* controller Idle.
C2_ToggleWithoutStationReports ==
    (/\ lastCall.op = "toggle"
     /\ lastCall.alone
     /\ nCalls = 0)
        => /\ PlaybackErrorShown
           /\ \A n \in DOMAIN lastCall.issued : lastCall.issued[n] \notin {"play", "pause"}
           /\ currentStation = NoStation
           /\ ControllerState = "Idle"

\* a stopPlayback that repeats a stopPlayback returns in this step
SecondStopReturns ==
    \/ /\ Len(inflight) = 1
       /\ inflight[1].op = "stop"
       /\ inflight[1].after = "stop"
       /\ inflight[1].alone
       /\ inflight' = <<>>
       /\ lastCall'.result = "returned"
    \/ /\ ~UsesTrackPlayer
       /\ lastCall.op = "stop"
       /\ lastCall' # lastCall
       /\ lastCall'.op = "stop"
       /\ lastCall'.after = "stop"

\* C3: a second stopPlayback right after a first leaves the state the first
\* left, which is Idle with currentStation null and no resource held, and
\* shows no error.
C3_StopTwiceSameIdle ==
    [][SecondStopReturns =>
          /\ << currentStation, queue, tpState, audios, error >>'
                = << currentStation, queue, tpState, audios, error >>
          /\ ControllerState' = "Idle"
          /\ currentStation' = NoStation
          /\ Held' = {}]_vars

\* C4: once stopPlayback has returned the controller is Idle, no resource is
\* held and currentStation is null.
C4_StopLeavesIdle ==
    (/\ lastCall.op = "stop"
     /\ lastCall.result = "returned"
     /\ lastCall.alone)
        => /\ ControllerState = "Idle"
           /\ Held = {}
           /\ currentStation = NoStation

\* C5: when the endpoint answers with a JSON array, after the fetch settles
\* the station list is that array in the same order, the subtitle shows its
\* length and no error is recorded.
C5_ArrayBecomesList ==
    (/\ fetchPc = "done"
     /\ response.kind = "payload"
     /\ response.data.isArray)
        => /\ stations = response.data.items
           /\ Subtitle = Len(response.data.items)
           /\ error = ""

C5_Witness ==
    /\ fetchPc = "done"
    /\ response.kind = "payload"
    /\ response.data.isArray
    /\ Len(response.data.items) = MaxLen
    /\ response.data.items[1] # response.data.items[2]
    /\ Subtitle = MaxLen

\* C6: on a transport error, a parse error or a payload that is not an array,
\* after the fetch settles the station list is the two-entry fallback list and
\* a non-empty error message is shown.
C6_FailureFallsBack ==
    (fetchPc = "done" /\ FetchFailed)
        => /\ stations = FallbackStations
           /\ Len(stations) = 2
           /\ ErrorShown

C6_Witness ==
    /\ fetchPc = "done"
    /\ response.kind = "transport"
    /\ response.message = ""
    /\ stations = FallbackStations

\* C7: a playStation that fails at one of its backend calls leaves the
\* controller Idle with currentStation null and a playback error on screen.
C7_FailedSelectLeavesIdle ==
    (/\ lastCall.op = "select"
     /\ lastCall.result # "returned"
     /\ lastCall.alone)
        => /\ ControllerState = "Idle"
           /\ currentStation = NoStation
           /\ PlaybackErrorShown

\* C8: a playStation(i) that ran with no other invocation in flight and whose
\* backend calls all succeeded leaves the controller Playing, currentStation i
\* and the held resource its own, bound to stations[i].url.
C8_SelectPlaysStation ==
    (/\ lastCall.op = "select"
     /\ lastCall.result = "returned"
     /\ lastCall.alone)
        => /\ ControllerState = "Playing"
           /\ currentStation = lastCall.index
           /\ Held # {}
           /\ \A r \in Held : /\ r.call = lastCall.id
                              /\ r.url = stations[lastCall.index + 1].url

Flipped(state) == IF state = "Playing" THEN "Paused" ELSE "Playing"

ControlCalls(issued) == { n \in DOMAIN issued : issued[n] \in {"play", "pause"} }

\* C9: with a resource held, a togglePlayPause takes Playing to Paused by one
\* backend pause and Paused to Playing by one backend play, and a second
\* toggle right after it returns to the state the first started in.
C9_ToggleFlips ==
    (/\ lastCall.op = "toggle"
     /\ lastCall.result = "returned"
     /\ lastCall.alone
     /\ Held # {}
     /\ lastCall.from \in {"Playing", "Paused"})
        => /\ ControllerState = Flipped(lastCall.from)
           /\ Cardinality(ControlCalls(lastCall.issued)) = 1
           /\ \A n \in ControlCalls(lastCall.issued) :
                 lastCall.issued[n] = (IF lastCall.from = "Playing" THEN "pause" ELSE "play")
           /\ lastCall.before \in {"Playing", "Paused"} => ControllerState = lastCall.before

\* C10: as long as every playStation settled before the next was invoked, at
\* most one backend resource is held at any time, on every platform branch.
C10_AtMostOneSession ==
    ~overlapEver => Cardinality(Held) <= 1

\* C11: in every reachable state a backend resource is held exactly when
\* currentStation is non-null and play() has been called since the last
\* stopPlayback.
C11_HeldIffSelectedAndAttempted ==
    (Held # {}) <=> (currentStation # NoStation /\ attempted)

\* a togglePlayPause or stopPlayback that ran alone ends in this step on a
\* rejected backend call
ControlRejects ==
    /\ Len(inflight) = 1
    /\ inflight[1].op \in {"toggle", "stop"}
    /\ inflight[1].alone
    /\ inflight' = <<>>
    /\ lastCall'.result # "returned"

\* C12: a backend call rejected in togglePlayPause or stopPlayback is caught
\* in the handler and shown as a playback error; a failed toggle leaves
\* currentStation and the Playing/Paused state as they were.
C12_ControlRejectionCaught ==
    [][ControlRejects =>
          /\ lastCall'.result = "caught"
          /\ PlaybackErrorShown'
          /\ lastCall'.op = "toggle" =>
                /\ currentStation' = currentStation
                /\ ControllerState' = lastCall'.from]_vars

\* C13: while one handler invocation is suspended at an awaited backend call
\* no other invocation issues one: at most one invocation is in flight.
C13_BackendCallsSerial ==
    Len(inflight) <= 1

\* a stopPlayback returns in this step
StopReturns ==
    \/ /\ \E k \in DOMAIN inflight : inflight[k].op = "stop" /\ inflight' = Remove(inflight, k)
       /\ attempted' = FALSE
       /\ tpState' \in {"stopped", tpState}
       /\ currentStation' = AfterStop
       /\ Len(inflight') = Len(inflight) - 1
    \/ /\ ~UsesTrackPlayer
       /\ lastCall' # lastCall
       /\ lastCall'.op = "stop"

\* C14: once stopPlayback has returned the error message is empty.
C14_StopClearsError ==
    [][StopReturns => error' = ""]_vars

\* C15: a togglePlayPause that follows a returned stopPlayback, after a
\* station had been selected, starts nothing: it issues no backend play or
\* pause, a playback error is shown, and the controller stays Idle with
\* currentStation null.
C15_ToggleAfterStopIsNoOp ==
    (/\ lastCall.op = "toggle"
     /\ lastCall.prev = "stop"
     /\ lastCall.alone
     /\ lastCall.result = "returned"
     /\ nCalls > 0)
        => /\ ControlCalls(lastCall.issued) = {}
           /\ PlaybackErrorShown
           /\ ControllerState = "Idle"
           /\ currentStation = NoStation

\* C16: the catalog fetch is issued once per mount; provided it settles,
\* loading eventually becomes false and stays false in every outcome; the
\* station list is assigned once, no later than loading becomes false, so
\* the list is never on screen while loading is true.
C16_OneFetchThenLoaded ==
    /\ [][/\ fetchPc # "mount" => fetchPc' # "mount"
          /\ fetchPc' = "fetch" => fetchPc \in {"mount", "fetch"}
          /\ stations' # stations => (fetchPc # "done" /\ fetchPc' = "done")
          /\ ~loading => ~loading']_vars
    /\ [](loading <=> fetchPc # "done")
    /\ <>[](~loading)

C16_Witness ==
    /\ fetchPc = "done"
    /\ ~loading
    /\ response.kind = "payload"
    /\ ~response.data.isArray
    /\ stations = FallbackStations

\* C17: currentStation is null or an index of the current station list, and
\* it is null while the list is empty or loading.
C17_SelectedRowExists ==
    /\ currentStation # NoStation => (0 <= currentStation /\ currentStation < Len(stations))
    /\ (loading \/ stations = <<>>) => currentStation = NoStation

C17_Witness ==
    /\ Len(stations) = 1
    /\ currentStation = 0
    /\ Held # {}
====
